---- MODULE Spec2Model ----
(***************************************************************************)
(* Model of the evalexpr tokenizer (src/src/token/mod.rs) and of the value *)
(* expectation helpers of the error module (src/src/error/mod.rs).         *)
(*                                                                         *)
(* A string is a sequence of characters, each character a one-character    *)
(* TLA+ string.  tokenize(string) runs as a state machine: the loop of      *)
(* str_to_tokens, one character per step, then the loop of                 *)
(* resolve_literals, one iteration per step.                               *)
(***************************************************************************)
EXTENDS Integers, Sequences, FiniteSets, TLC

VARIABLES
    string,     \* tokenize's argument
    pc,         \* "str_to_tokens" | "resolve_literals" | "done" | "helper"
    idx,        \* str_to_tokens: index of the next character of string.chars()
    partial,    \* str_to_tokens: its Vec `result`, then the Vec handed on
    tokens,     \* resolve_literals: the remaining slice `tokens`
    result,     \* resolve_literals: its Vec `result`
    ret,        \* tokenize's return value
    actual,     \* the &Value argument of an expect_* helper
    token,      \* the &self argument of Token::is_value
    hcall,      \* which helper was called ("none" before the call)
    hret        \* the helper's return value

vars == <<string, pc, idx, partial, tokens, result, ret, actual, token, hcall, hret>>

tokenizerVars == <<string, pc, idx, partial, tokens, result, ret>>
helperVars == <<actual, token, hcall, hret>>

----------------------------------------------------------------------------
(* Bounds of the model. *)

\* Longest input string drawn from Alphabet.
MaxLen == 3
\* Longest tuple among the values handed to the expect_* helpers.
MaxTupleLen == 1

----------------------------------------------------------------------------
(* Option<T> *)

None == [some |-> FALSE]
Some(x) == [some |-> TRUE, value |-> x]

(* Sequence helpers *)

Last(s) == s[Len(s)]
DropFirst(s, n) == SubSeq(s, n + 1, Len(s))
Prefix(s, n) == SubSeq(s, 1, n)

RECURSIVE SeqsUpTo(_, _)
SeqsUpTo(S, n) ==
    IF n = 0 THEN {<<>>}
    ELSE LET shorter == SeqsUpTo(S, n - 1)
         IN shorter \cup {Append(s, c) : s \in {t \in shorter : Len(t) = n - 1}, c \in S}

----------------------------------------------------------------------------
(* enum Token *)

SimpleTokenTypes ==
    {"Plus", "Minus", "Star", "Slash", "Percent",
     "Eq", "Neq", "Gt", "Lt", "Geq", "Leq", "And", "Or", "Not",
     "LBrace", "RBrace", "Whitespace"}

Tok(t) == [type |-> t]
Token_Identifier(s) == [type |-> "Identifier", identifier |-> s]
Token_Float(f) == [type |-> "Float", float |-> f]
Token_Int(n) == [type |-> "Int", int |-> n]
Token_Boolean(b) == [type |-> "Boolean", boolean |-> b]

(* enum PartialToken *)

PToken(t) == [kind |-> "Token", token |-> t]
Literal(s) == [kind |-> "Literal", literal |-> s]
PEq == [kind |-> "Eq"]
PExclamationMark == [kind |-> "ExclamationMark"]
PGt == [kind |-> "Gt"]
PLt == [kind |-> "Lt"]
PAmpersand == [kind |-> "Ampersand"]
PVerticalBar == [kind |-> "VerticalBar"]

(* Result<Vec<Token>, Error> of tokenize; "Panic" is the out-of-range slice *)
(* index of &tokens[cutoff..].                                              *)

Pending == [tag |-> "Pending"]
Ok(v) == [tag |-> "Ok", value |-> v]
Err(e) == [tag |-> "Err", error |-> e]
Panic == [tag |-> "Panic"]

unmatched_partial_token(first, second) ==
    [variant |-> "UnmatchedPartialToken", first |-> first, second |-> second]

----------------------------------------------------------------------------
(* Characters *)

Digits == {"0", "1", "2", "3", "4", "5", "6", "7", "8", "9"}

\* char::is_whitespace for the characters of the model: space, tab, newline.
is_whitespace(c) == c \in {" ", "\t", "\n"}

char_to_partial_token(c) ==
    CASE c = "+" -> PToken(Tok("Plus"))
      [] c = "-" -> PToken(Tok("Minus"))
      [] c = "*" -> PToken(Tok("Star"))
      [] c = "/" -> PToken(Tok("Slash"))
      [] c = "%" -> PToken(Tok("Percent"))
      [] c = "=" -> PEq
      [] c = "!" -> PExclamationMark
      [] c = ">" -> PGt
      [] c = "<" -> PLt
      [] c = "&" -> PAmpersand
      [] c = "|" -> PVerticalBar
      [] c = "(" -> PToken(Tok("LBrace"))
      [] c = ")" -> PToken(Tok("RBrace"))
      [] OTHER -> IF is_whitespace(c)
                  THEN PToken(Tok("Whitespace"))
                  ELSE Literal(<<c>>)

----------------------------------------------------------------------------
(* The host parsers used by resolve_literals: str::parse::<IntType>,       *)
(* str::parse::<FloatType> and str::parse::<bool>.                         *)
(*                                                                         *)
(* A number is kept as its decimal digits (most significant first, no      *)
(* leading zero), so that a 64-bit IntType keeps its width.  A literal run *)
(* never holds '+' or '-' (both are operator characters), so the parsers'   *)
(* optional sign is left out.                                              *)

DigitValue(c) ==
    CASE c = "0" -> 0 [] c = "1" -> 1 [] c = "2" -> 2 [] c = "3" -> 3
      [] c = "4" -> 4 [] c = "5" -> 5 [] c = "6" -> 6 [] c = "7" -> 7
      [] c = "8" -> 8 [] c = "9" -> 9

DigitValues(s) == [i \in 1..Len(s) |-> DigitValue(s[i])]

\* Number of leading decimal digits of s (eat_digits).
RECURSIVE DigitPrefixLen(_)
DigitPrefixLen(s) ==
    IF s = <<>> \/ s[1] \notin Digits THEN 0 ELSE 1 + DigitPrefixLen(Tail(s))

RECURSIVE StripLeadingZeros(_)
StripLeadingZeros(ds) ==
    IF ds # <<>> /\ ds[1] = 0 THEN StripLeadingZeros(Tail(ds)) ELSE ds

RECURSIVE TrailingZeros(_)
TrailingZeros(ds) ==
    IF ds # <<>> /\ Last(ds) = 0 THEN 1 + TrailingZeros(Prefix(ds, Len(ds) - 1)) ELSE 0

\* ds <= es for two digit sequences of the same length.
RECURSIVE DigitsLeq(_, _)
DigitsLeq(ds, es) ==
    \/ ds = <<>>
    \/ ds[1] < es[1]
    \/ ds[1] = es[1] /\ DigitsLeq(Tail(ds), Tail(es))

\* IntType::max_value() of the 64-bit IntType: 9223372036854775807.
IntTypeMax == <<9, 2, 2, 3, 3, 7, 2, 0, 3, 6, 8, 5, 4, 7, 7, 5, 8, 0, 7>>

ParseError == [ok |-> FALSE]
Parsed(v) == [ok |-> TRUE, value |-> v]

\* literal.parse::<IntType>(): every character a decimal digit, at least
\* one, and the value within IntType (checked_mul / checked_add).
parse_IntType(literal) ==
    IF literal = <<>> \/ DigitPrefixLen(literal) # Len(literal)
    THEN ParseError
    ELSE LET ds == StripLeadingZeros(DigitValues(literal))
         IN IF \/ Len(ds) > Len(IntTypeMax)
               \/ Len(ds) = Len(IntTypeMax) /\ ~DigitsLeq(ds, IntTypeMax)
            THEN ParseError
            ELSE Parsed(IF ds = <<>> THEN <<0>> ELSE ds)

\* The small natural number written by the digits ds (an exponent).
RECURSIVE NatOf(_)
NatOf(ds) == IF ds = <<>> THEN 0 ELSE 10 * NatOf(Prefix(ds, Len(ds) - 1)) + Last(ds)

\* The float integral.fractional * 10^exp as the real number it writes:
\* digits * 10^exp with digits stripped of leading and trailing zeros.
\* Rounding to the nearest FloatType is not modelled.
Decimal(integral, fractional, exp) ==
    LET all == DigitValues(integral \o fractional)
        tz == TrailingZeros(all)
        ds == StripLeadingZeros(Prefix(all, Len(all) - tz))
    IN IF ds = <<>>
       THEN [class |-> "finite", digits |-> <<0>>, exp |-> 0]
       ELSE [class |-> "finite", digits |-> ds, exp |-> exp - Len(fractional) + tz]

Infinity == [class |-> "inf"]
NaN == [class |-> "nan"]

\* The fallback of dec2flt for what is no decimal: "inf" and "NaN".
parse_special(literal) ==
    IF literal = <<"i", "n", "f">> THEN Parsed(Infinity)
    ELSE IF literal = <<"N", "a", "N">> THEN Parsed(NaN)
    ELSE ParseError

\* parse_exp: the rest after 'e' / 'E' is all digits, at least one.
parse_exp(literal, integral, fractional, rest) ==
    IF rest = <<>> \/ DigitPrefixLen(rest) # Len(rest)
    THEN parse_special(literal)
    ELSE Parsed(Decimal(integral, fractional, NatOf(DigitValues(rest))))

\* literal.parse::<FloatType>(): digits [ '.' digits ] [ ('e'|'E') digits ],
\* with a digit before or after the point and before a pointless exponent.
parse_FloatType(literal) ==
    LET i == DigitPrefixLen(literal)
        integral == Prefix(literal, i)
        s == DropFirst(literal, i)
    IN IF literal = <<>> THEN ParseError
       ELSE IF s = <<>> THEN Parsed(Decimal(integral, <<>>, 0))
       ELSE IF s[1] \in {"e", "E"}
            THEN IF integral = <<>>
                 THEN parse_special(literal)
                 ELSE parse_exp(literal, integral, <<>>, Tail(s))
       ELSE IF s[1] = "."
            THEN LET j == DigitPrefixLen(Tail(s))
                     fractional == Prefix(Tail(s), j)
                     t == DropFirst(Tail(s), j)
                 IN IF integral = <<>> /\ fractional = <<>>
                    THEN parse_special(literal)
                    ELSE IF t = <<>> THEN Parsed(Decimal(integral, fractional, 0))
                    ELSE IF t[1] \in {"e", "E"}
                         THEN parse_exp(literal, integral, fractional, Tail(t))
                    ELSE parse_special(literal)
       ELSE parse_special(literal)

\* literal.parse::<bool>(): exactly "true" or "false".
parse_bool(literal) ==
    IF literal = <<"t", "r", "u", "e">> THEN Parsed(TRUE)
    ELSE IF literal = <<"f", "a", "l", "s", "e">> THEN Parsed(FALSE)
    ELSE ParseError

----------------------------------------------------------------------------
(* fn str_to_tokens: one iteration of `for c in string.chars()` *)

\* Mutant: a run of whitespace is collapsed into one Whitespace token.
push_partial_token_collapsing_whitespace(vec, partial_token) ==
    IF /\ vec # <<>>
       /\ Last(vec).kind = "Literal"
       /\ partial_token.kind = "Literal"
    THEN [vec EXCEPT ![Len(vec)] = Literal(Last(vec).literal \o partial_token.literal)]
    ELSE IF /\ vec # <<>>
            /\ Last(vec) = PToken(Tok("Whitespace"))
            /\ partial_token = PToken(Tok("Whitespace"))
    THEN vec
    ELSE Append(vec, partial_token)

\* Mutant: the character is put in front of the literal run, not pushed at its end.
push_partial_token_prepending(vec, partial_token) ==
    IF /\ vec # <<>>
       /\ Last(vec).kind = "Literal"
       /\ partial_token.kind = "Literal"
    THEN [vec EXCEPT ![Len(vec)] = Literal(partial_token.literal \o Last(vec).literal)]
    ELSE Append(vec, partial_token)

push_partial_token(vec, partial_token) ==
    IF /\ vec # <<>>
       /\ Last(vec).kind = "Literal"
       /\ partial_token.kind = "Literal"
    THEN [vec EXCEPT ![Len(vec)] = Literal(Last(vec).literal \o partial_token.literal)]
    ELSE Append(vec, partial_token)

RECURSIVE str_to_tokens(_)
str_to_tokens(s) ==
    IF s = <<>> THEN <<>>
    ELSE push_partial_token(str_to_tokens(Prefix(s, Len(s) - 1)),
                            char_to_partial_token(Last(s)))

----------------------------------------------------------------------------
(* fn resolve_literals: the arms of `match first`.  An arm gives the token *)
(* pushed and the cutoff, or the error returned.                           *)

Emit(t, cutoff) == [kind |-> "emit", token |-> t, cutoff |-> cutoff]
Fail(e) == [kind |-> "fail", error |-> e]

resolve_Token(t) == Emit(t, 1)

\* Mutant: the float parser is tried before the integer parser.
resolve_Literal_float_first(literal) ==
    Emit(IF parse_FloatType(literal).ok
         THEN Token_Float(parse_FloatType(literal).value)
         ELSE IF parse_IntType(literal).ok
         THEN Token_Int(parse_IntType(literal).value)
         ELSE IF parse_bool(literal).ok
         THEN Token_Boolean(parse_bool(literal).value)
         ELSE Token_Identifier(literal),
         1)

resolve_Literal(literal) ==
    Emit(IF parse_IntType(literal).ok
         THEN Token_Int(parse_IntType(literal).value)
         ELSE IF parse_FloatType(literal).ok
         THEN Token_Float(parse_FloatType(literal).value)
         ELSE IF parse_bool(literal).ok
         THEN Token_Boolean(parse_bool(literal).value)
         ELSE Token_Identifier(literal),
         1)

\* Mutant: the error forgets the entry that follows.
resolve_Eq_dropping_second(first, second) ==
    IF second = Some(PEq) THEN Emit(Tok("Eq"), 2)
    ELSE Fail(unmatched_partial_token(first, None))

resolve_Eq(first, second) ==
    IF second = Some(PEq) THEN Emit(Tok("Eq"), 2)
    ELSE Fail(unmatched_partial_token(first, second))

\* Mutant: "!=" gives Neq.
resolve_ExclamationMark_Neq(first, second) ==
    IF second = Some(PEq) THEN Emit(Tok("Neq"), 2)
    ELSE Emit(Tok("Not"), 1)

resolve_ExclamationMark(first, second) ==
    IF second = Some(PEq) THEN Emit(Tok("Eq"), 2)
    ELSE Emit(Tok("Not"), 1)

\* Mutant: the arm without '=' does not set cutoff = 1.
resolve_Gt_keeping_cutoff(first, second) ==
    IF second = Some(PEq) THEN Emit(Tok("Geq"), 2)
    ELSE Emit(Tok("Gt"), 2)

resolve_Gt(first, second) ==
    IF second = Some(PEq) THEN Emit(Tok("Geq"), 2)
    ELSE Emit(Tok("Gt"), 1)

resolve_Lt(first, second) ==
    IF second = Some(PEq) THEN Emit(Tok("Leq"), 2)
    ELSE Emit(Tok("Lt"), 1)

\* Mutant: a lone '&' is let through as And instead of failing.
resolve_Ampersand_lenient(first, second) ==
    IF second = Some(PAmpersand) THEN Emit(Tok("And"), 2)
    ELSE Emit(Tok("And"), 1)

resolve_Ampersand(first, second) ==
    IF second = Some(PAmpersand) THEN Emit(Tok("And"), 2)
    ELSE Fail(unmatched_partial_token(first, second))

resolve_VerticalBar(first, second) ==
    IF second = Some(PVerticalBar) THEN Emit(Tok("Or"), 2)
    ELSE Fail(unmatched_partial_token(first, second))

resolve_first(first, second) ==
    CASE first.kind = "Token" -> resolve_Token(first.token)
      [] first.kind = "Literal" -> resolve_Literal(first.literal)
      [] first.kind = "Eq" -> resolve_Eq(first, second)
      [] first.kind = "ExclamationMark" -> resolve_ExclamationMark(first, second)
      [] first.kind = "Gt" -> resolve_Gt(first, second)
      [] first.kind = "Lt" -> resolve_Lt(first, second)
      [] first.kind = "Ampersand" -> resolve_Ampersand(first, second)
      [] first.kind = "VerticalBar" -> resolve_VerticalBar(first, second)

\* tokens[0].clone() and tokens.get(1).cloned()
first_of(ts) == ts[1]

\* Mutant: the lookahead skips whitespace.
RECURSIVE second_of_skipping_whitespace(_)
second_of_skipping_whitespace(ts) ==
    IF Len(ts) < 2 THEN None
    ELSE IF ts[2] = PToken(Tok("Whitespace")) /\ Len(ts) >= 3
         THEN second_of_skipping_whitespace(Tail(ts))
    ELSE Some(ts[2])

second_of(ts) == IF Len(ts) >= 2 THEN Some(ts[2]) ELSE None

\* resolve_literals as a function of the whole slice.
RECURSIVE resolve_from(_, _)
resolve_from(ts, acc) ==
    IF Len(ts) = 0 THEN Ok(acc)
    ELSE LET r == resolve_first(first_of(ts), second_of(ts))
         IN IF r.kind = "fail" THEN Err(r.error)
            ELSE IF r.cutoff > Len(ts) THEN Panic
            ELSE resolve_from(DropFirst(ts, r.cutoff), Append(acc, r.token))

resolve_literals(ts) == resolve_from(ts, <<>>)

tokenize(s) == resolve_literals(str_to_tokens(s))

----------------------------------------------------------------------------
(* error module: the Value variants the helpers match on, the expectation  *)
(* errors and the expect_* helpers.                                        *)

Value_String(s) == [type |-> "String", string |-> s]
Value_Float(f) == [type |-> "Float", float |-> f]
Value_Int(i) == [type |-> "Int", int |-> i]
Value_Boolean(b) == [type |-> "Boolean", boolean |-> b]
Value_Tuple(t) == [type |-> "Tuple", tuple |-> t]
Value_Empty == [type |-> "Empty"]

expected_string(a) == [variant |-> "ExpectedString", actual |-> a]
expected_number(a) == [variant |-> "ExpectedNumber", actual |-> a]
expected_number_or_string(a) == [variant |-> "ExpectedNumberOrString", actual |-> a]
expected_boolean(a) == [variant |-> "ExpectedBoolean", actual |-> a]
expected_tuple(a) == [variant |-> "ExpectedTuple", actual |-> a]

\* Ok(())
Unit == <<>>

expect_string(a) ==
    IF a.type = "String" THEN Ok(a.string) ELSE Err(expected_string(a))

\* Mutant: the error of the neighbouring helper.
expect_number_wrong_variant(a) ==
    IF a.type \in {"Float", "Int"} THEN Ok(Unit) ELSE Err(expected_number_or_string(a))

expect_number(a) ==
    IF a.type \in {"Float", "Int"} THEN Ok(Unit) ELSE Err(expected_number(a))

expect_number_or_string(a) ==
    IF a.type \in {"String", "Float", "Int"}
    THEN Ok(Unit)
    ELSE Err(expected_number_or_string(a))

expect_boolean(a) ==
    IF a.type = "Boolean" THEN Ok(a.boolean) ELSE Err(expected_boolean(a))

expect_tuple(a) ==
    IF a.type = "Tuple" THEN Ok(a.tuple) ELSE Err(expected_tuple(a))

(* Token::is_value *)

\* Mutant: both braces count as values.
is_value_both_braces(t) ==
    t.type \in {"LBrace", "RBrace", "Identifier", "Float", "Int", "Boolean"}

is_value(t) ==
    CASE t.type = "Plus" -> FALSE
      [] t.type = "Minus" -> FALSE
      [] t.type = "Star" -> FALSE
      [] t.type = "Slash" -> FALSE
      [] t.type = "Percent" -> FALSE
      [] t.type = "Eq" -> FALSE
      [] t.type = "Neq" -> FALSE
      [] t.type = "Gt" -> FALSE
      [] t.type = "Lt" -> FALSE
      [] t.type = "Geq" -> FALSE
      [] t.type = "Leq" -> FALSE
      [] t.type = "And" -> FALSE
      [] t.type = "Or" -> FALSE
      [] t.type = "Not" -> FALSE
      [] t.type = "LBrace" -> FALSE
      [] t.type = "RBrace" -> TRUE
      [] t.type = "Whitespace" -> FALSE
      [] t.type = "Identifier" -> TRUE
      [] t.type = "Float" -> TRUE
      [] t.type = "Int" -> TRUE
      [] t.type = "Boolean" -> TRUE

----------------------------------------------------------------------------
(* The inputs of the model. *)

\* Every class of character: the operators, the six ambiguous characters,
\* the braces, whitespace, a digit, a letter and the decimal point.
Alphabet == {"+", "%", "=", "!", ">", "<", "&", "|", "(", ")", " ", "1", "x", "."}

\* The characters whose neighbours decide a resolution, for longer inputs.
CoreAlphabet == {"=", "!", "&", " ", "1", "x"}

\* Longest input string drawn from CoreAlphabet.
MaxCoreLen == 4

Examples ==
    { <<"t", "r", "u", "e">>, <<"f", "a", "l", "s", "e">>,
      <<"t", "r", "u", "e", "x">>, <<"T", "r", "u", "e">>,
      <<"1", "2", "x">>, <<"1", "2", "3">>, <<"0", "0", "7">>,
      <<"1", " ", "+", " ", "2">>, <<"1", "\t", "\n", "2">>,
      <<"1", ".", "5">>, <<"1", ".", "5", "0">>, <<"1", "e", "2">>, <<"1", "e">>,
      <<"1", "-", "2">>, <<"2", "*", "3", "/", "4">>,
      <<"i", "n", "f">>, <<"N", "a", "N">>,
      <<"9", "2", "2", "3", "3", "7", "2", "0", "3", "6",
        "8", "5", "4", "7", "7", "5", "8", "0", "7">>,
      <<"9", "2", "2", "3", "3", "7", "2", "0", "3", "6",
        "8", "5", "4", "7", "7", "5", "8", "0", "8">> }

Inputs == SeqsUpTo(Alphabet, MaxLen) \cup SeqsUpTo(CoreAlphabet, MaxCoreLen) \cup Examples

Strings == {<<>>, <<"x">>, <<"1">>}
Floats == {Decimal(<<"1">>, <<"5">>, 0), Decimal(<<"0">>, <<>>, 0), Infinity}
Ints == {<<0>>, <<1>>, <<1, 2>>}

ScalarValues ==
    {Value_String(s) : s \in Strings} \cup {Value_Float(f) : f \in Floats}
    \cup {Value_Int(i) : i \in Ints} \cup {Value_Boolean(b) : b \in BOOLEAN}
    \cup {Value_Empty}

Values == ScalarValues \cup {Value_Tuple(t) : t \in SeqsUpTo(ScalarValues, MaxTupleLen)}

Tokens ==
    {Tok(t) : t \in SimpleTokenTypes} \cup {Token_Identifier(s) : s \in Strings}
    \cup {Token_Float(f) : f \in Floats} \cup {Token_Int(i) : i \in Ints}
    \cup {Token_Boolean(b) : b \in BOOLEAN}

NoReturn == [tag |-> "None"]

----------------------------------------------------------------------------
(* tokenize(string) as a state machine *)

Init ==
    /\ string \in Inputs
    /\ pc = "str_to_tokens"
    /\ idx = 1
    /\ partial = <<>>
    /\ tokens = <<>>
    /\ result = <<>>
    /\ ret = Pending
    /\ actual = Value_Empty
    /\ token = Tok("Whitespace")
    /\ hcall = "none"
    /\ hret = NoReturn

\* str_to_tokens: one iteration of the loop over string.chars()
StrToTokensStep ==
    /\ pc = "str_to_tokens"
    /\ idx <= Len(string)
    /\ partial' = push_partial_token(partial, char_to_partial_token(string[idx]))
    /\ idx' = idx + 1
    /\ UNCHANGED <<string, pc, tokens, result, ret, helperVars>>

\* str_to_tokens returns `result`; tokenize hands it to resolve_literals
StrToTokensReturn ==
    /\ pc = "str_to_tokens"
    /\ idx > Len(string)
    /\ pc' = "resolve_literals"
    /\ tokens' = partial
    /\ result' = <<>>
    /\ UNCHANGED <<string, idx, partial, ret, helperVars>>

\* resolve_literals: one iteration of `while tokens.len() > 0`
ResolveStep ==
    /\ pc = "resolve_literals"
    /\ Len(tokens) > 0
    /\ LET r == resolve_first(first_of(tokens), second_of(tokens))
       IN IF r.kind = "fail"
          THEN /\ pc' = "done"
               /\ ret' = Err(r.error)
               /\ UNCHANGED <<tokens, result>>
          ELSE IF r.cutoff > Len(tokens)
          THEN /\ pc' = "done"
               /\ ret' = Panic
               /\ result' = Append(result, r.token)
               /\ UNCHANGED tokens
          ELSE /\ result' = Append(result, r.token)
               /\ tokens' = DropFirst(tokens, r.cutoff)
               /\ UNCHANGED <<pc, ret>>
    /\ UNCHANGED <<string, idx, partial, helperVars>>

\* resolve_literals: the loop ends, Ok(result)
ResolveReturn ==
    /\ pc = "resolve_literals"
    /\ Len(tokens) = 0
    /\ pc' = "done"
    /\ ret' = Ok(result)
    /\ UNCHANGED <<string, idx, partial, tokens, result, helperVars>>

Next == StrToTokensStep \/ StrToTokensReturn \/ ResolveStep \/ ResolveReturn

Spec == Init /\ [][Next]_vars

\* The loops are plain sequential code: a step that can be taken is taken.
FairSpec == Spec /\ WF_vars(Next)

----------------------------------------------------------------------------
(* One call of an expect_* helper or of Token::is_value *)

HelperInit ==
    /\ string = <<>>
    /\ pc = "helper"
    /\ idx = 1
    /\ partial = <<>>
    /\ tokens = <<>>
    /\ result = <<>>
    /\ ret = Pending
    /\ actual \in Values
    /\ token \in Tokens
    /\ hcall = "none"
    /\ hret = NoReturn

Call(name, value) ==
    /\ pc = "helper"
    /\ hcall = "none"
    /\ hcall' = name
    /\ hret' = value
    /\ UNCHANGED <<actual, token, tokenizerVars>>

CallExpectString == Call("expect_string", expect_string(actual))
CallExpectNumber == Call("expect_number", expect_number(actual))
CallExpectNumberOrString == Call("expect_number_or_string", expect_number_or_string(actual))
CallExpectBoolean == Call("expect_boolean", expect_boolean(actual))
CallExpectTuple == Call("expect_tuple", expect_tuple(actual))
CallIsValue == Call("is_value", is_value(token))

HelperNext ==
    \/ CallExpectString
    \/ CallExpectNumber
    \/ CallExpectNumberOrString
    \/ CallExpectBoolean
    \/ CallExpectTuple
    \/ CallIsValue

HelperSpec == HelperInit /\ [][HelperNext]_vars

----------------------------------------------------------------------------
(* Properties *)

Done == pc = "done"
Succeeded == Done /\ ret.tag = "Ok"
Failed == Done /\ ret.tag = "Err"

\* Number of entries of the merged sequence the resolver has consumed.
Consumed == Len(partial) - Len(tokens)

TokenTypes == SimpleTokenTypes \cup {"Identifier", "Float", "Int", "Boolean"}

AmbiguousFailing == {PEq, PAmpersand, PVerticalBar}
AmbiguousLenient == {PExclamationMark, PGt, PLt}

(* C1: tokenize is total.  Every run ends, with Ok(sequence of Token) or    *)
(* Err(UnmatchedPartialToken) and never with the panic of a slice index    *)
(* past the end; every iteration of the resolver's loop that goes on drops *)
(* exactly 1 or 2 entries from the front of the remaining slice, 2 only    *)
(* when a second entry exists.                                             *)
C1_ResolveIterationAdvances ==
    (pc = "resolve_literals" /\ pc' = "resolve_literals")
        => \E k \in {1, 2} : k <= Len(tokens) /\ tokens' = DropFirst(tokens, k)

C1_WellDefinedResult ==
    Done =>
        \/ /\ ret.tag = "Ok"
           /\ \A i \in DOMAIN ret.value : ret.value[i].type \in TokenTypes
        \/ /\ ret.tag = "Err"
           /\ ret.error.variant = "UnmatchedPartialToken"

\* C1: every run of tokenize ends (<>Done) with Ok(tokens) or
\* Err(UnmatchedPartialToken), and every continuing resolver iteration drops
\* exactly 1 or 2 entries, never more than remain.
C1_TokenizeTotal ==
    /\ <>Done
    /\ []C1_WellDefinedResult
    /\ [][C1_ResolveIterationAdvances]_vars

\* An input ending in an ambiguous character was tokenized.
C1_Witness ==
    /\ Done
    /\ string # <<>>
    /\ Last(string) \in {"=", "!", ">", "<", "&", "|"}
    /\ ret.tag \in {"Ok", "Err"}
    /\ Len(partial) >= 2

(* C2: at a partial token '=', '&' or '|' the resolver emits Eq, And or Or *)
(* and consumes 2 entries when the next entry is the same character; in    *)
(* every other case tokenize returns Err(UnmatchedPartialToken) with first *)
(* that partial token and second the following merged entry unchanged, or  *)
(* None at the end of the input.                                           *)
PairedToken(p) ==
    CASE p = PEq -> Tok("Eq")
      [] p = PAmpersand -> Tok("And")
      [] p = PVerticalBar -> Tok("Or")

C2_Step ==
    (pc = "resolve_literals" /\ Len(tokens) > 0 /\ tokens[1] \in AmbiguousFailing)
        => IF Len(tokens) >= 2 /\ tokens[2] = tokens[1]
           THEN /\ pc' = "resolve_literals"
                /\ result' = Append(result, PairedToken(tokens[1]))
                /\ tokens' = DropFirst(tokens, 2)
           ELSE /\ pc' = "done"
                /\ ret' = Err([variant |-> "UnmatchedPartialToken",
                               first |-> tokens[1],
                               second |-> IF Len(tokens) >= 2
                                          THEN Some(tokens[2])
                                          ELSE None])

C2_Examples ==
    Done =>
        /\ string = <<"=", "=">> => ret = Ok(<<Tok("Eq")>>)
        /\ string = <<"&", "&">> => ret = Ok(<<Tok("And")>>)
        /\ string = <<"|", "|">> => ret = Ok(<<Tok("Or")>>)
        /\ string = <<"=">> =>
              ret = Err([variant |-> "UnmatchedPartialToken",
                         first |-> PEq, second |-> None])
        /\ string = <<"=", "x", "1">> =>
              ret = Err([variant |-> "UnmatchedPartialToken",
                         first |-> PEq, second |-> Some(Literal(<<"x", "1">>))])

\* C2: every resolver step at '=', '&' or '|' pairs it with the same
\* character (Eq / And / Or, 2 entries) or returns UnmatchedPartialToken
\* {first, second} with second the following merged entry or None.
C2_UnmatchedPartialToken == [][C2_Step]_vars /\ []C2_Examples

\* "=x1" failed at its '=' with the whole literal run "x1" as second.
C2_Witness ==
    /\ Failed
    /\ string = <<"=", "x", "1">>
    /\ ret.error.first = PEq
    /\ ret.error.second = Some(Literal(<<"x", "1">>))

(* C3: at '!', '>' or '<' the resolver consumes 2 entries and emits Eq (for *)
(* '!'), Geq or Leq when the next entry is '='; otherwise it consumes 1     *)
(* entry and emits Not, Gt or Lt, leaving the next entry in the slice.      *)
(* tokenize("!=") = [Eq].                                                   *)
WithEqToken(p) ==
    CASE p = PExclamationMark -> Tok("Eq")
      [] p = PGt -> Tok("Geq")
      [] p = PLt -> Tok("Leq")

AloneToken(p) ==
    CASE p = PExclamationMark -> Tok("Not")
      [] p = PGt -> Tok("Gt")
      [] p = PLt -> Tok("Lt")

C3_Step ==
    (pc = "resolve_literals" /\ Len(tokens) > 0 /\ tokens[1] \in AmbiguousLenient)
        => /\ pc' = "resolve_literals"
           /\ ret' = ret
           /\ IF Len(tokens) >= 2 /\ tokens[2] = PEq
              THEN /\ result' = Append(result, WithEqToken(tokens[1]))
                   /\ tokens' = DropFirst(tokens, 2)
              ELSE /\ result' = Append(result, AloneToken(tokens[1]))
                   /\ tokens' = DropFirst(tokens, 1)

C3_Examples ==
    Done =>
        /\ string = <<"!", "=">> => ret = Ok(<<Tok("Eq")>>)
        /\ string = <<"!">> => ret = Ok(<<Tok("Not")>>)
        /\ string = <<">", "=">> => ret = Ok(<<Tok("Geq")>>)
        /\ string = <<">">> => ret = Ok(<<Tok("Gt")>>)
        /\ string = <<"<", "=">> => ret = Ok(<<Tok("Leq")>>)
        /\ string = <<"<">> => ret = Ok(<<Tok("Lt")>>)
        /\ string = <<"!", "x">> => ret = Ok(<<Tok("Not"), Token_Identifier(<<"x">>)>>)

\* C3: every resolver step at '!', '>' or '<' emits Eq / Geq / Leq and drops
\* 2 entries before '=', and otherwise emits Not / Gt / Lt and drops 1.
C3_LenientLookahead == [][C3_Step]_vars /\ []C3_Examples

\* "!=" was tokenized to [Eq].
C3_Witness ==
    /\ Succeeded
    /\ string = <<"!", "=">>
    /\ ret.value = <<Tok("Eq")>>

(* C4: whenever tokenize succeeds, the output holds exactly one Whitespace  *)
(* token per whitespace character of the input, each at the position that  *)
(* follows the tokens of the input before that character.                  *)
WhitespacePositions == {i \in 1..Len(string) : is_whitespace(string[i])}

WhitespaceTokens(ts) == {i \in 1..Len(ts) : ts[i] = Tok("Whitespace")}

\* C4: a successful tokenize holds one Whitespace token per whitespace
\* character, each right after the tokens of the input before that character.
C4_WhitespaceRetained ==
    Succeeded =>
        /\ Cardinality(WhitespaceTokens(ret.value)) = Cardinality(WhitespacePositions)
        /\ \A i \in WhitespacePositions :
              LET before == tokenize(Prefix(string, i - 1))
              IN /\ before.tag = "Ok"
                 /\ Len(ret.value) > Len(before.value)
                 /\ Prefix(ret.value, Len(before.value)) = before.value
                 /\ ret.value[Len(before.value) + 1] = Tok("Whitespace")
        /\ string = <<"1", " ", "+", " ", "2">> =>
              ret.value = <<Token_Int(<<1>>), Tok("Whitespace"), Tok("Plus"),
                            Tok("Whitespace"), Token_Int(<<2>>)>>

\* Two consecutive spaces gave two consecutive Whitespace tokens.
C4_Witness ==
    /\ Succeeded
    /\ Len(string) >= 3
    /\ string[2] = " " /\ string[3] = " "
    /\ ret.value[2] = Tok("Whitespace") /\ ret.value[3] = Tok("Whitespace")

(* C5: for every way of writing the input as s1 ++ w ++ s2 with w a         *)
(* non-empty run of whitespace and tokenize succeeding on s1 and on s2,     *)
(* tokenize of the input succeeds with                                      *)
(* tokenize(s1) ++ tokenize(w) ++ tokenize(s2).                             *)
AllWhitespace(s) == \A i \in 1..Len(s) : is_whitespace(s[i])

\* C5: tokenize(s1 ++ w ++ s2) = tokenize(s1) ++ tokenize(w) ++ tokenize(s2)
\* for every whitespace run w between two inputs tokenize succeeds on.
C5_Composition ==
    Done =>
        \A i \in 1..Len(string) : \A j \in i..Len(string) :
            LET s1 == Prefix(string, i - 1)
                w == SubSeq(string, i, j)
                s2 == DropFirst(string, j)
            IN (AllWhitespace(w) /\ tokenize(s1).tag = "Ok" /\ tokenize(s2).tag = "Ok")
                   => ret = Ok(tokenize(s1).value \o tokenize(w).value \o tokenize(s2).value)

\* "! ==" = "!" ++ " " ++ "==" was tokenized: no "!=" across the separator.
C5_Witness ==
    /\ Succeeded
    /\ string = <<"!", " ", "=", "=">>
    /\ ret.value = <<Tok("Not"), Tok("Whitespace"), Tok("Eq")>>

(* C6: tokenization is atomic and fails fast.  The entry an error names is *)
(* the leftmost unmatched '=', '&' or '|' of the left-to-right scan; the    *)
(* entries after it are left unprocessed; a success has consumed every     *)
(* entry; tokens already pushed are never changed; nothing runs after the  *)
(* return.                                                                 *)

\* The scan of the resolution table, from entry i of p: the index of the
\* first '=', '&' or '|' that is not followed by the same character, or 0.
RECURSIVE LeftmostUnmatched(_, _)
LeftmostUnmatched(p, i) ==
    IF i > Len(p) THEN 0
    ELSE IF p[i] \in AmbiguousFailing
         THEN IF i < Len(p) /\ p[i + 1] = p[i]
              THEN LeftmostUnmatched(p, i + 2)
              ELSE i
    ELSE IF p[i] \in AmbiguousLenient /\ i < Len(p) /\ p[i + 1] = PEq
         THEN LeftmostUnmatched(p, i + 2)
    ELSE LeftmostUnmatched(p, i + 1)

C6_Return ==
    /\ Succeeded => (tokens = <<>> /\ LeftmostUnmatched(partial, 1) = 0)
    /\ Failed =>
          /\ DOMAIN ret = {"tag", "error"}
          /\ LeftmostUnmatched(partial, 1) = Consumed + 1
          /\ tokens = DropFirst(partial, Consumed)
          /\ ret.error.first = partial[Consumed + 1]
          /\ ret.error.second = second_of(tokens)

C6_NoBacktracking ==
    /\ pc = "resolve_literals" =>
          /\ Len(result') >= Len(result)
          /\ Prefix(result', Len(result)) = result
          /\ Len(tokens') <= Len(tokens)
    /\ pc # "done"

\* C6: the result is a complete sequence or one error naming the leftmost
\* unmatched character; nothing after it is processed, nothing before it is
\* reinterpreted, and nothing runs after the return.
C6_FailFast == []C6_Return /\ [][C6_NoBacktracking]_vars

\* "&x=": the error names the '&', not the later '='.
C6_Witness ==
    /\ Failed
    /\ string = <<"&", "x", "=">>
    /\ ret.error.first = PAmpersand
    /\ Len(tokens) = 3

(* C7: a literal run resolves to exactly one token and consumes 1 entry:   *)
(* Int if the run parses as an integer, else Float if it parses as a       *)
(* float, else Boolean if it is "true" or "false", else Identifier with    *)
(* the run's text; it never fails.  "12x" becomes Identifier("12x").       *)
C7_Step ==
    (pc = "resolve_literals" /\ Len(tokens) > 0 /\ tokens[1].kind = "Literal")
        => LET run == tokens[1].literal
               pushed == Last(result')
           IN /\ pc' = "resolve_literals"
              /\ ret' = ret
              /\ tokens' = DropFirst(tokens, 1)
              /\ Len(result') = Len(result) + 1
              /\ Prefix(result', Len(result)) = result
              /\ (pushed.type = "Int") <=> parse_IntType(run).ok
              /\ (pushed.type = "Float")
                    <=> (~parse_IntType(run).ok /\ parse_FloatType(run).ok)
              /\ (pushed.type = "Boolean")
                    <=> (~parse_IntType(run).ok /\ ~parse_FloatType(run).ok
                         /\ run \in {<<"t", "r", "u", "e">>, <<"f", "a", "l", "s", "e">>})
              /\ (pushed.type = "Identifier")
                    <=> (~parse_IntType(run).ok /\ ~parse_FloatType(run).ok
                         /\ run \notin {<<"t", "r", "u", "e">>, <<"f", "a", "l", "s", "e">>})
              /\ pushed.type = "Identifier" => pushed.identifier = run
              /\ pushed.type \in {"Int", "Float", "Boolean", "Identifier"}

C7_Examples ==
    Done =>
        /\ string = <<"1", "2", "x">> => ret = Ok(<<Token_Identifier(<<"1", "2", "x">>)>>)
        /\ string = <<"1", "2", "3">> => ret = Ok(<<Token_Int(<<1, 2, 3>>)>>)
        /\ string = <<"1", ".", "5">> =>
              ret = Ok(<<Token_Float([class |-> "finite", digits |-> <<1, 5>>, exp |-> -1])>>)
        /\ string = <<"t", "r", "u", "e">> => ret = Ok(<<Token_Boolean(TRUE)>>)
        /\ string = <<"f", "a", "l", "s", "e">> => ret = Ok(<<Token_Boolean(FALSE)>>)

\* C7: every resolver step at a literal run pushes exactly one token, by the
\* priority Int, Float, Boolean, Identifier(text), and drops 1 entry.
C7_LiteralPriority == [][C7_Step]_vars /\ []C7_Examples

\* "12x" was tokenized to the one token Identifier("12x").
C7_Witness ==
    /\ Succeeded
    /\ string = <<"1", "2", "x">>
    /\ partial = <<Literal(<<"1", "2", "x">>)>>
    /\ ret.value = <<Token_Identifier(<<"1", "2", "x">>)>>

(* C8: Token::is_value is true exactly for RBrace, Identifier, Float, Int   *)
(* and Boolean.                                                            *)
\* C8: is_value(token) is true exactly for RBrace, Identifier, Float, Int,
\* Boolean.
C8_IsValue ==
    hcall = "is_value" =>
        hret = (token.type \in {"RBrace", "Identifier", "Float", "Int", "Boolean"})

\* is_value was called on LBrace and returned false.
C8_Witness ==
    /\ hcall = "is_value"
    /\ token = Tok("LBrace")
    /\ hret = FALSE

(* C9: each expect_* helper succeeds exactly when the value's kind is in    *)
(* its accepted set, and otherwise returns its own error variant carrying  *)
(* the inspected value; the value is left unchanged.                       *)
Accepted(name) ==
    CASE name = "expect_string" -> {"String"}
      [] name = "expect_number" -> {"Int", "Float"}
      [] name = "expect_number_or_string" -> {"String", "Int", "Float"}
      [] name = "expect_boolean" -> {"Boolean"}
      [] name = "expect_tuple" -> {"Tuple"}

ErrorVariant(name) ==
    CASE name = "expect_string" -> "ExpectedString"
      [] name = "expect_number" -> "ExpectedNumber"
      [] name = "expect_number_or_string" -> "ExpectedNumberOrString"
      [] name = "expect_boolean" -> "ExpectedBoolean"
      [] name = "expect_tuple" -> "ExpectedTuple"

ExpectHelpers ==
    {"expect_string", "expect_number", "expect_number_or_string",
     "expect_boolean", "expect_tuple"}

C9_Return ==
    hcall \in ExpectHelpers =>
        IF actual.type \in Accepted(hcall)
        THEN hret.tag = "Ok"
        ELSE /\ hret.tag = "Err"
             /\ hret.error.variant = ErrorVariant(hcall)
             /\ hret.error.actual = actual

\* C9: an expect_* helper returns Ok exactly on its accepted kinds, else its
\* own error variant carrying the value, and leaves the value unchanged.
C9_ValueClassifiers == []C9_Return /\ [][actual' = actual]_vars

\* expect_number was called on a string value.
C9_Witness ==
    /\ hcall = "expect_number"
    /\ actual = Value_String(<<"x">>)
    /\ hret = Err([variant |-> "ExpectedNumber", actual |-> Value_String(<<"x">>)])

(* C10: str_to_tokens gives a sequence with no two adjacent literal runs;  *)
(* written back character by character it is the classified input (every  *)
(* literal run holds its characters in input order, every other character  *)
(* gave one entry at its place); it is no longer than the input.           *)
RECURSIVE Unmerge(_)
Unmerge(p) ==
    IF p = <<>> THEN <<>>
    ELSE IF p[1].kind = "Literal"
         THEN [i \in 1..Len(p[1].literal) |-> Literal(<<p[1].literal[i]>>)] \o Unmerge(Tail(p))
         ELSE <<p[1]>> \o Unmerge(Tail(p))

\* C10: the merged sequence has no two adjacent literal runs, unmerges to the
\* classified input, and is no longer than the input.
C10_MergedRuns ==
    pc # "str_to_tokens" =>
        /\ \A i \in 1..(Len(partial) - 1) :
              ~(partial[i].kind = "Literal" /\ partial[i + 1].kind = "Literal")
        /\ \A i \in 1..Len(partial) :
              partial[i].kind = "Literal" => partial[i].literal # <<>>
        /\ Unmerge(partial) = [i \in 1..Len(string) |-> char_to_partial_token(string[i])]
        /\ Len(partial) <= Len(string)

\* "x1+" was merged into the literal run "x1" and the Plus token.
C10_Witness ==
    /\ pc = "resolve_literals"
    /\ string = <<"x", "1", "+">>
    /\ partial = <<Literal(<<"x", "1">>), PToken(Tok("Plus"))>>

====
